---- MODULE Spec2Model ----
(***************************************************************************)
(* Neural style transfer by image optimisation (src/main.py, src/Gatys.py).*)
(*                                                                         *)
(* The two scripts are two variants of one program: main.py optimises the  *)
(* synthesized image with Adam, Gatys.py with L-BFGS.  The variable        *)
(* `variant` says which script runs.                                       *)
(*                                                                         *)
(* Floating point numbers are modelled as fixed-point numbers with Q       *)
(* steps per unit: the integer n stands for n / Q.  A result whose         *)
(* magnitude exceeds FMaxQ overflows to +Inf or -Inf, and NaN is a value   *)
(* of its own that every operation propagates, as IEEE arithmetic does.    *)
(* Tensors of shape (1, C, H, W) are records [C, H, W, v] with v the       *)
(* row-major sequence of the C*H*W numbers.                                *)
(***************************************************************************)
EXTENDS Integers, Sequences, FiniteSets, TLC

(***************************************************************************)
(* Bounds of the model.                                                    *)
(***************************************************************************)
Q == 1000
FMaxQ == 500000000

(***************************************************************************)
(* Floating point values.                                                  *)
(***************************************************************************)
PInf == FMaxQ + 1
NInf == 0 - (FMaxQ + 1)
NaN == FMaxQ + 2

IsNaN(a) == a = NaN
IsInf(a) == a = PInf \/ a = NInf
Finite(a) == ~IsNaN(a) /\ ~IsInf(a)

IAbs(n) == IF n < 0 THEN 0 - n ELSE n
Sgn(a) == IF a = 0 THEN 0 ELSE IF a < 0 THEN 0 - 1 ELSE 1
Signed(s, m) == IF s < 0 THEN 0 - m ELSE m
InfOf(s) == IF s < 0 THEN NInf ELSE PInf
\* round a finite magnitude into the representable range
Sat(r) == IF r > FMaxQ THEN PInf ELSE IF r < 0 - FMaxQ THEN NInf ELSE r

FromInt(k) == k * Q

FNeg(a) == IF IsNaN(a) THEN NaN ELSE IF a = PInf THEN NInf
           ELSE IF a = NInf THEN PInf ELSE 0 - a

FAdd(a, b) ==
    IF IsNaN(a) \/ IsNaN(b) THEN NaN
    ELSE IF IsInf(a) /\ IsInf(b) THEN (IF a = b THEN a ELSE NaN)
    ELSE IF IsInf(a) THEN a
    ELSE IF IsInf(b) THEN b
    ELSE Sat(a + b)

FSub(a, b) == FAdd(a, FNeg(b))

FAbs(a) == IF IsNaN(a) THEN NaN ELSE IF IsInf(a) THEN PInf ELSE IAbs(a)

\* the product of two finite magnitudes x, y (both <= FMaxQ), in units of 1/Q
MulMag(x, y) ==
    LET xh == x \div Q
        xl == x % Q
        yh == y \div Q
        yl == y % Q
    IN  IF xh > 0 /\ yh > 0 /\ xh > (FMaxQ \div Q) \div yh
        THEN FMaxQ + 1
        ELSE xh * yh * Q + xh * yl + xl * yh + (xl * yl) \div Q

FMul(a, b) ==
    IF IsNaN(a) \/ IsNaN(b) THEN NaN
    ELSE IF IsInf(a) \/ IsInf(b)
         THEN (IF a = 0 \/ b = 0 THEN NaN ELSE InfOf(Sgn(a) * Sgn(b)))
    ELSE LET m == MulMag(IAbs(a), IAbs(b))
         IN  IF m > FMaxQ THEN InfOf(Sgn(a) * Sgn(b))
             ELSE Signed(Sgn(a) * Sgn(b), m)

\* a * k for a Python int k >= 0 (a weight, a count)
FMulInt(a, k) ==
    IF IsNaN(a) THEN NaN
    ELSE IF IsInf(a) THEN (IF k = 0 THEN NaN ELSE a)
    ELSE IF k = 0 THEN 0
    ELSE IF IAbs(a) > FMaxQ \div k THEN InfOf(Sgn(a))
    ELSE a * k

\* a / k for a Python int k >= 0; x / 0 is +-Inf and 0 / 0 is NaN
FDivInt(a, k) ==
    IF IsNaN(a) THEN NaN
    ELSE IF k = 0 THEN (IF a = 0 THEN NaN ELSE InfOf(Sgn(a)))
    ELSE IF IsInf(a) THEN a
    ELSE Signed(Sgn(a), IAbs(a) \div k)

\* 1 / b
FRecip(b) ==
    IF IsNaN(b) THEN NaN
    ELSE IF IsInf(b) THEN 0
    ELSE IF b = 0 THEN PInf
    ELSE Signed(Sgn(b), (Q * Q) \div IAbs(b))

\* Python's a <= b, a < b on floats: false when either side is NaN
FLe(a, b) == ~IsNaN(a) /\ ~IsNaN(b) /\ a <= b
FLt(a, b) == ~IsNaN(a) /\ ~IsNaN(b) /\ a < b
FMin(a, b) == IF IsNaN(a) \/ IsNaN(b) THEN NaN ELSE IF a <= b THEN a ELSE b

RECURSIVE FSumFrom(_, _)
FSumFrom(s, i) == IF i > Len(s) THEN 0 ELSE FAdd(s[i], FSumFrom(s, i + 1))
\* sum(list) of Python, torch.sum of a tensor's elements
FSum(s) == FSumFrom(s, 1)
\* Tensor.mean(): the mean of no element is NaN
FMean(s) == FDivInt(FSum(s), Len(s))

RECURSIVE FMaxAbsFrom(_, _)
FMaxAbsFrom(s, i) ==
    IF i > Len(s) THEN 0
    ELSE LET r == FMaxAbsFrom(s, i + 1)
             a == FAbs(s[i])
         IN  IF IsNaN(a) \/ IsNaN(r) THEN NaN ELSE IF a >= r THEN a ELSE r

(***************************************************************************)
(* Tensors of shape (1, C, H, W).                                          *)
(***************************************************************************)
Tensor(c, h, w, v) == [C |-> c, H |-> h, W |-> w, v |-> v]
Idx(t, c, h, w) == ((c - 1) * t.H + (h - 1)) * t.W + w
At(t, c, h, w) == t.v[Idx(t, c, h, w)]
Numel(t) == t.C * t.H * t.W
MapT(F(_), t) == [t EXCEPT !.v = [k \in 1..Len(t.v) |-> F(t.v[k])]]
Map2(F(_, _), a, b) == [k \in 1..Len(a) |-> F(a[k], b[k])]
FSq(a) == FMul(a, a)

\* Y_hat[:, :, 1:, :] - Y_hat[:, :, :-1, :], flattened
DiffH(t) ==
    LET n == t.C * (t.H - 1) * t.W
    IN  [k \in 1..(IF n > 0 THEN n ELSE 0) |->
            LET c == ((k - 1) \div ((t.H - 1) * t.W)) + 1
                r == (k - 1) % ((t.H - 1) * t.W)
                h == (r \div t.W) + 1
                w == (r % t.W) + 1
            IN  FSub(At(t, c, h + 1, w), At(t, c, h, w))]

\* Y_hat[:, :, :, 1:] - Y_hat[:, :, :, :-1], flattened
DiffW(t) ==
    LET n == t.C * t.H * (t.W - 1)
    IN  [k \in 1..(IF n > 0 THEN n ELSE 0) |->
            LET c == ((k - 1) \div (t.H * (t.W - 1))) + 1
                r == (k - 1) % (t.H * (t.W - 1))
                h == (r \div (t.W - 1)) + 1
                w == (r % (t.W - 1)) + 1
            IN  FSub(At(t, c, h, w + 1), At(t, c, h, w))]

AbsSeq(s) == [k \in 1..Len(s) |-> FAbs(s[k])]

\* 0.5 as a float
Half == Q \div 2

\* a total variation that looks at vertical neighbours only
tv_loss_vertical_only(Y_hat) ==
    FMul(Half, FAdd(FMean(AbsSeq(DiffH(Y_hat))), FMean(AbsSeq(DiffH(Y_hat)))))

tv_loss(Y_hat) ==
    FMul(Half, FAdd(FMean(AbsSeq(DiffH(Y_hat))), FMean(AbsSeq(DiffW(Y_hat)))))

content_loss(Y_hat, Y) ==
    FMean(Map2(LAMBDA a, b : FSq(FSub(a, b)), Y_hat.v, Y.v))

\* X.reshape((num_channels, n)); matmul(X, X.T) / n : a (C, C) matrix
gram(X) ==
    LET num_channels == X.C
        n == Numel(X) \div X.C
        row(c) == [k \in 1..n |-> X.v[(c - 1) * n + k]]
    IN  Tensor(1, num_channels, num_channels,
               [k \in 1..(num_channels * num_channels) |->
                   LET i == ((k - 1) \div num_channels) + 1
                       j == ((k - 1) % num_channels) + 1
                   IN  FDivInt(FSum(Map2(FMul, row(i), row(j))), n)])

style_loss(Y_hat, gram_Y) ==
    FDivInt(FMean(Map2(LAMBDA a, b : FSq(FSub(a, b)), gram(Y_hat).v, gram_Y.v)), 4)

(***************************************************************************)
(* Program constants.                                                      *)
(***************************************************************************)
\* main.py: style_layers, content_layers; Gatys.py: Style_Layers, Content_Layers
style_layers == <<0, 5, 10, 19, 28>>
content_layers == <<21>>
\* main.py: content_weight, style_weight, tv_weight
content_weight == 8
style_weight == 5000
tv_weight == 0
\* Gatys.py: CONTENT_WEIGHT, STYLE_WEIGHT, TV_WEIGHT
CONTENT_WEIGHT == 8
STYLE_WEIGHT == 5000
TV_WEIGHT == 80
\* StepLR(trainer, lr_decay_epoch, 0.8)
gamma == (8 * Q) \div 10

LossWeights(v) ==
    IF v = "main"
    THEN [content |-> content_weight, style |-> style_weight, tv |-> tv_weight]
    ELSE [content |-> CONTENT_WEIGHT, style |-> STYLE_WEIGHT, tv |-> TV_WEIGHT]

(***************************************************************************)
(* The feature extractor.  The pretrained network is an external           *)
(* collaborator: a sequence of layers, each a map from tensor to tensor    *)
(* with frozen weights.  Its stand-in applies, pixel by pixel, w * x + b   *)
(* followed on every other layer by a ReLU; the weights come from a seed.  *)
(***************************************************************************)
RECURSIVE MaxOf(_, _)
MaxOf(s, i) == IF i > Len(s) THEN 0 - 1
               ELSE LET r == MaxOf(s, i + 1) IN IF s[i] > r THEN s[i] ELSE r

\* pretrained_net.features[i]
Features(seed, i) ==
    [w |-> IF (i + seed) % 3 = 0 THEN 0 - 1 ELSE 1,
     b |-> (((i * seed) % 3) - 1) * Half,
     relu |-> (i % 2 = 1)]

\* nn.Sequential(*[pretrained_net.features[i] for i in range(max(content_layers + style_layers) + 1)])
\* layer i of the code is element i + 1 of the sequence
MakeNet(seed, cl, sl) == [k \in 1..(MaxOf(cl \o sl, 1) + 1) |-> Features(seed, k - 1)]

\* net[i](X)
Layer(l, X) ==
    MapT(LAMBDA x :
            LET y == FAdd(IF l.w < 0 THEN FNeg(x) ELSE FMulInt(x, l.w), l.b)
            IN  IF l.relu /\ ~IsNaN(y) /\ y < 0 THEN 0 ELSE y,
         X)

\* i in layers_
InList(i, layers_) == \E k \in 1..Len(layers_) : layers_[k] = i

\* an iteration that records the input of layer i instead of its output
ef_body_records_input(net_, i, st, content_layers_, style_layers_) ==
    [X |-> Layer(net_[i + 1], st.X),
     styles |-> IF InList(i, style_layers_) THEN Append(st.styles, st.X) ELSE st.styles,
     contents |-> IF InList(i, content_layers_) THEN Append(st.contents, st.X)
                  ELSE st.contents]

\* one iteration of the loop of extract_features; st = [X, contents, styles]
ef_body(net_, i, st, content_layers_, style_layers_) ==
    LET X1 == Layer(net_[i + 1], st.X)
    IN  [X |-> X1,
         styles |-> IF InList(i, style_layers_) THEN Append(st.styles, X1) ELSE st.styles,
         contents |-> IF InList(i, content_layers_) THEN Append(st.contents, X1)
                      ELSE st.contents]

RECURSIVE ef_loop(_, _, _, _, _)
ef_loop(net_, i, st, content_layers_, style_layers_) ==
    IF i >= Len(net_) THEN st
    ELSE LET st1 == ef_body(net_, i, st, content_layers_, style_layers_)
         IN  \* the test makes TLC compute this iteration before the next
             IF Len(st1.X.v) >= 0
             THEN ef_loop(net_, i + 1, st1, content_layers_, style_layers_)
             ELSE st1

extract_features(net_, X_, content_layers_, style_layers_) ==
    ef_loop(net_, 0, [X |-> X_, contents |-> <<>>, styles |-> <<>>],
            content_layers_, style_layers_)

(***************************************************************************)
(* The loss composer.                                                      *)
(***************************************************************************)
Min(a, b) == IF a <= b THEN a ELSE b
\* [f(Y_hat, Y) * weight for Y_hat, Y in zip(hats, refs)]
ZipLoss(F(_, _), hats, refs, weight) ==
    [k \in 1..Min(Len(hats), Len(refs)) |-> FMulInt(F(hats[k], refs[k]), weight)]

\* main.py: l_ = sum(styles_l) / 5 + sum(contents_l) + sum([tv_l])
total_main(contents_l, styles_l, tv_l) ==
    FAdd(FAdd(FDivInt(FSum(styles_l), 5), FSum(contents_l)), FSum(<<tv_l>>))

\* Gatys.py: l_ = sum(styles_l) / len(styles_l) + sum(contents_l) + tv_l
total_Gatys(contents_l, styles_l, tv_l) ==
    FAdd(FAdd(FDivInt(FSum(styles_l), Len(styles_l)), FSum(contents_l)), tv_l)

compute_loss(v, wts, X_, contents_Y_hat_, styles_Y_hat_, contents_Y, styles_Y_gram_) ==
    LET contents_l == ZipLoss(content_loss, contents_Y_hat_, contents_Y, wts.content)
        styles_l == ZipLoss(style_loss, styles_Y_hat_, styles_Y_gram_, wts.style)
        tv_l == FMulInt(tv_loss(X_), wts.tv)
    IN  IF v # "main" /\ Len(styles_l) = 0
        THEN \* Gatys.py: sum([]) / len([]) is the int division 0 / 0
             [contents_l |-> <<>>, styles_l |-> <<>>, tv_l |-> 0, l_ |-> 0,
              raised |-> "ZeroDivisionError"]
        ELSE [contents_l |-> contents_l, styles_l |-> styles_l, tv_l |-> tv_l,
              l_ |-> IF v = "main" THEN total_main(contents_l, styles_l, tv_l)
                     ELSE total_Gatys(contents_l, styles_l, tv_l),
              raised |-> ""]

(***************************************************************************)
(* The synthesized image, the optimizer and the scheduler.                 *)
(***************************************************************************)
NoTensor == Tensor(0, 0, 0, <<>>)
Zeros(t) == [k \in 1..Len(t.v) |-> 0]

\* get_inits without the copy: the parameter keeps what its constructor gave it
copy_skipped(weight, X_) == weight

\* gen_img.weight.data.copy_(X.data)
copy_(weight, X_) == [weight EXCEPT !.v = X_.v]

\* SynthesizedImage(X.shape), then the copy; the optimizer over its one parameter
get_inits(v, X_, lr_, styles_Y_, ctor) ==
    [gen_img |-> copy_(ctor, X_),
     styles_Y_gram |-> [k \in 1..Len(styles_Y_) |-> gram(styles_Y_[k])],
     trainer |-> [kind |-> IF v = "main" THEN "Adam" ELSE "LBFGS",
                  lr |-> lr_, steps |-> 0, func_evals |-> 0, calls |-> 0]]

\* torch.optim.lr_scheduler.StepLR(trainer, lr_decay_epoch, 0.8)
StepLR(step_size_, gamma_) == [last_epoch |-> 0, step_size |-> step_size_, gamma |-> gamma_]

\* a schedule that decays on every step
StepLR_get_lr_every_step(sch, lr_) == FMul(lr_, sch.gamma)

\* StepLR.get_lr after last_epoch += 1
StepLR_get_lr(sch, lr_) ==
    IF sch.last_epoch = 0 \/ sch.last_epoch % sch.step_size # 0
    THEN lr_
    ELSE FMul(lr_, sch.gamma)

\* Adam: the parameter moves against the gradient by lr times a direction
\* of unit size per element
AdamStep(X_, g, lr_) ==
    [X_ EXCEPT !.v = [k \in 1..Len(X_.v) |-> FSub(X_.v[k], FMul(lr_, g[k]))]]

\* L-BFGS _add_grad(t, d) with d the negated gradient
LbfgsAddGrad(X_, t, g) ==
    [X_ EXCEPT !.v = [k \in 1..Len(X_.v) |-> FAdd(X_.v[k], FMul(t, FNeg(g[k])))]]

(***************************************************************************)
(* Bounds: the inputs the specifications draw from.                        *)
(***************************************************************************)
MaxEpochs == 3
MaxDecayEpoch == 2
BigLr == 1000
\* max_iter of torch.optim.LBFGS (20 in the library); max_eval = max_iter * 5 // 4
max_iter == 4
max_eval == (max_iter * 5) \div 4

Img(a, b, c, d) == Tensor(1, 2, 2, <<FromInt(a), FromInt(b), FromInt(c), FromInt(d)>>)
ContentImages == {Img(0, 1, 1, 0)}
StyleImages == {Img(0, 1, 1, 0), Img(2, 0, 0, 2)}
\* torch.rand: values in [0, 1)
RandImages == {Tensor(1, 2, 2, <<Half, 0, Half \div 2, Half>>),
               Tensor(1, 2, 2, <<0, Half, 0, Half \div 2>>)}
LrChoices == {0, Half, FromInt(BigLr)}

\* the gradients back-propagation may produce for a loss value
GradFinite == {<<0, 0, 0, 0>>, <<Q, 0 - Q, 0, Q>>}
GradNaN == <<NaN, NaN, NaN, NaN>>
GradChoices(l) ==
    IF IsNaN(l) THEN {GradNaN}
    ELSE IF IsInf(l) THEN GradFinite \cup {GradNaN}
    ELSE GradFinite

VARIABLES
    variant,          \* "main" (main.py) or "Gatys" (Gatys.py)
    pc,               \* the position of the script
    num_epochs, lr, lr_decay_epoch,     \* the arguments of train
    content_X, style_X,                 \* the preprocessed images
    net,              \* the truncated network (its frozen weights)
    netGrad,          \* backward passes accumulated in the network parameters' .grad
    weights,          \* the three loss weights (module globals)
    contents_Y, styles_Y,               \* the references
    styles_Y_gram,
    X,                \* the synthesized image (gen_img.weight)
    grad,             \* X.grad: [n: backward passes accumulated, g: the values]
    trainer, scheduler,
    epoch,
    contents_Y_hat, styles_Y_hat, ll,
    lb,               \* the locals of LBFGS.step
    trace,            \* the calls made in the current outer iteration
    result,           \* what train returned
    ef,               \* the arguments and locals of a call of extract_features
    out               \* what a call of compute_loss returned

cfgVars == <<variant, num_epochs, lr, lr_decay_epoch, content_X, style_X, ef, out>>
refVars == <<net, weights, contents_Y, styles_Y, styles_Y_gram>>
vars == <<variant, pc, num_epochs, lr, lr_decay_epoch, content_X, style_X, net,
          netGrad, weights, contents_Y, styles_Y, styles_Y_gram, X, grad, trainer,
          scheduler, epoch, contents_Y_hat, styles_Y_hat, ll, lb, trace, result, ef,
          out>>

NoGrad == [n |-> 0, g |-> <<>>]
NoLb == [n_iter |-> 0, current_evals |-> 0, prev_loss |-> 0, opt_cond |-> FALSE,
         ls_func_evals |-> 0, td_max |-> 0, ret |-> ""]
NoTrainer == [kind |-> "", lr |-> 0, steps |-> 0, func_evals |-> 0, calls |-> 0]
NoEf == [content_layers_ |-> <<>>, style_layers_ |-> <<>>, i |-> 0, X |-> NoTensor,
         contents |-> <<>>, styles |-> <<>>, ret |-> ""]
NoOut == [contents_l |-> <<>>, styles_l |-> <<>>, tv_l |-> 0, l_ |-> 0, raised |-> ""]

Init ==
    /\ variant \in {"main", "Gatys"}
    /\ pc = "get_contents"
    /\ num_epochs \in (0 - 1)..MaxEpochs
    /\ lr \in LrChoices
    /\ lr_decay_epoch \in 1..MaxDecayEpoch
    /\ content_X \in ContentImages
    /\ style_X \in StyleImages
    /\ net = MakeNet(1, content_layers, style_layers)
    /\ netGrad = 0
    /\ weights = LossWeights(variant)
    /\ contents_Y = <<>> /\ styles_Y = <<>> /\ styles_Y_gram = <<>>
    /\ X = NoTensor /\ grad = NoGrad
    /\ trainer = NoTrainer /\ scheduler = StepLR(1, gamma)
    /\ epoch = 0
    /\ contents_Y_hat = <<>> /\ styles_Y_hat = <<>> /\ ll = 0
    /\ lb = NoLb /\ trace = <<>> /\ result = NoTensor
    /\ ef = NoEf /\ out = NoOut

(***************************************************************************)
(* The script: get_contents, get_styles, train.                            *)
(***************************************************************************)
get_contents ==
    /\ pc = "get_contents"
    /\ contents_Y' = extract_features(net, content_X, content_layers, style_layers).contents
    /\ pc' = "get_styles"
    /\ UNCHANGED <<cfgVars, net, netGrad, weights, styles_Y, styles_Y_gram, X, grad,
                   trainer, scheduler, epoch, contents_Y_hat, styles_Y_hat, ll, lb,
                   trace, result>>

get_styles ==
    /\ pc = "get_styles"
    /\ styles_Y' = extract_features(net, style_X, content_layers, style_layers).styles
    /\ pc' = "train"
    /\ UNCHANGED <<cfgVars, net, netGrad, weights, contents_Y, styles_Y_gram, X, grad,
                   trainer, scheduler, epoch, contents_Y_hat, styles_Y_hat, ll, lb,
                   trace, result>>

\* what SynthesizedImage.__init__ gives the parameter before the copy
CtorValues == IF variant = "main" THEN {content_X} ELSE RandImages

\* train, up to the loop: get_inits and the scheduler
train_inits ==
    /\ pc = "train"
    /\ \E ctor \in CtorValues :
         LET r == get_inits(variant, content_X, lr, styles_Y, ctor)
         IN  /\ X' = r.gen_img
             /\ styles_Y_gram' = r.styles_Y_gram
             /\ trainer' = r.trainer
    /\ scheduler' = StepLR(lr_decay_epoch, gamma)
    /\ grad' = NoGrad
    /\ epoch' = 0
    /\ pc' = "loop"
    /\ UNCHANGED <<cfgVars, net, netGrad, weights, contents_Y, styles_Y,
                   contents_Y_hat, styles_Y_hat, ll, lb, trace, result>>

\* a loop that also stops once the loss is zero or not finite
LoopContinuesUntilConverged == epoch < num_epochs /\ (epoch = 0 \/ (ll # 0 /\ Finite(ll)))

\* for epoch in range(num_epochs)
LoopContinues == epoch < num_epochs

loop_head ==
    /\ pc = "loop"
    /\ LoopContinues
    /\ pc' = "zero_grad"
    /\ trace' = <<>>
    /\ UNCHANGED <<cfgVars, refVars, netGrad, X, grad, trainer, scheduler, epoch,
                   contents_Y_hat, styles_Y_hat, ll, lb, result>>

\* return X
train_return ==
    /\ pc = "loop"
    /\ ~LoopContinues
    /\ result' = X
    /\ pc' = "done"
    /\ UNCHANGED <<cfgVars, refVars, netGrad, X, grad, trainer, scheduler, epoch,
                   contents_Y_hat, styles_Y_hat, ll, lb, trace>>

ZeroedGrad == [n |-> 0, g |-> Zeros(X)]

\* trainer.zero_grad() at the head of the iteration
zero_grad ==
    /\ pc = "zero_grad"
    /\ grad' = ZeroedGrad
    /\ trace' = Append(trace, "zero_grad")
    /\ pc' = IF variant = "Gatys" /\ trainer.kind = "LBFGS" THEN "lb_enter" ELSE "extract"
    /\ UNCHANGED <<cfgVars, refVars, netGrad, X, trainer, scheduler, epoch,
                   contents_Y_hat, styles_Y_hat, ll, lb, result>>

DoExtract(next) ==
    /\ LET r == extract_features(net, X, content_layers, style_layers)
       IN  /\ contents_Y_hat' = r.contents
           /\ styles_Y_hat' = r.styles
    /\ trace' = Append(trace, "extract")
    /\ pc' = next
    /\ UNCHANGED <<cfgVars, refVars, netGrad, X, grad, trainer, scheduler, epoch, ll,
                   lb, result>>

DoLoss(next) ==
    /\ ll' = compute_loss(variant, weights, X, contents_Y_hat, styles_Y_hat,
                          contents_Y, styles_Y_gram).l_
    /\ trace' = Append(trace, "loss")
    /\ pc' = next
    /\ UNCHANGED <<cfgVars, refVars, netGrad, X, grad, trainer, scheduler, epoch,
                   contents_Y_hat, styles_Y_hat, lb, result>>

\* ll.backward(): accumulates into X.grad and into the .grad of the network
\* parameters, which the scripts leave with requires_grad set
DoBackward(next) ==
    /\ \E g \in GradChoices(ll) :
         grad' = [n |-> grad.n + 1, g |-> Map2(FAdd, grad.g, g)]
    /\ netGrad' = netGrad + 1
    /\ trace' = Append(trace, "backward")
    /\ pc' = next
    /\ UNCHANGED <<cfgVars, refVars, X, trainer, scheduler, epoch, contents_Y_hat,
                   styles_Y_hat, ll, lb, result>>

extract == pc = "extract" /\ DoExtract("loss")
loss == pc = "loss" /\ DoLoss("backward")
backward == pc = "backward" /\ DoBackward("step")

\* trainer.step() of the first-order optimizer
step ==
    /\ pc = "step"
    /\ X' = AdamStep(X, grad.g, trainer.lr)
    /\ trainer' = [trainer EXCEPT !.steps = @ + 1, !.calls = @ + 1]
    /\ trace' = Append(trace, "step")
    /\ pc' = "sched"
    /\ UNCHANGED <<cfgVars, refVars, netGrad, grad, scheduler, epoch, contents_Y_hat,
                   styles_Y_hat, ll, lb, result>>

\* scheduler.step(), and the loop's next epoch
scheduler_step ==
    /\ pc = "sched"
    /\ LET sch == [scheduler EXCEPT !.last_epoch = @ + 1]
       IN  /\ scheduler' = sch
           /\ trainer' = [trainer EXCEPT !.lr = StepLR_get_lr(sch, trainer.lr)]
    /\ epoch' = epoch + 1
    /\ trace' = Append(trace, "sched")
    /\ pc' = "loop"
    /\ UNCHANGED <<cfgVars, refVars, netGrad, X, grad, contents_Y_hat, styles_Y_hat,
                   ll, lb, result>>

(***************************************************************************)
(* trainer.step(closure) of L-BFGS (no line search), Gatys.py.             *)
(***************************************************************************)
\* orig_loss = closure()
lb_enter ==
    /\ pc = "lb_enter"
    /\ lb' = [NoLb EXCEPT !.ret = "lb_first"]
    /\ pc' = "cl_zero_grad"
    /\ UNCHANGED <<cfgVars, refVars, netGrad, X, grad, trainer, scheduler, epoch,
                   contents_Y_hat, styles_Y_hat, ll, trace, result>>

\* a closure that does not clear the gradient
closure_zero_grad_skipped ==
    /\ pc = "cl_zero_grad"
    /\ pc' = "cl_extract"
    /\ UNCHANGED <<cfgVars, refVars, netGrad, X, grad, trainer, scheduler, epoch,
                   contents_Y_hat, styles_Y_hat, ll, lb, trace, result>>

closure_zero_grad ==
    /\ pc = "cl_zero_grad"
    /\ grad' = ZeroedGrad
    /\ trace' = Append(trace, "zero_grad")
    /\ pc' = "cl_extract"
    /\ UNCHANGED <<cfgVars, refVars, netGrad, X, trainer, scheduler, epoch,
                   contents_Y_hat, styles_Y_hat, ll, lb, result>>

closure_extract == pc = "cl_extract" /\ DoExtract("cl_loss")
closure_loss == pc = "cl_loss" /\ DoLoss("cl_backward")
closure_backward == pc = "cl_backward" /\ DoBackward(lb.ret)

\* flat_grad.abs().max() <= tolerance_grad
OptCond == FLe(FMaxAbsFrom(grad.g, 1), 0)

\* after the first closure call
lb_first ==
    /\ pc = "lb_first"
    /\ lb' = [lb EXCEPT !.current_evals = 1, !.opt_cond = OptCond]
    /\ trainer' = [trainer EXCEPT !.func_evals = @ + 1]
    /\ pc' = IF OptCond THEN "lb_return" ELSE "lb_iter"
    /\ UNCHANGED <<cfgVars, refVars, netGrad, X, grad, scheduler, epoch,
                   contents_Y_hat, styles_Y_hat, ll, trace, result>>

\* one pass of `while n_iter < max_iter` up to the closure call
lb_iter ==
    /\ pc = "lb_iter"
    /\ lb.n_iter < max_iter
    /\ LET n == lb.n_iter + 1
           sn == trainer.steps + 1
           t == IF sn = 1
                THEN FMul(FMin(FromInt(1), FRecip(FSum(AbsSeq(grad.g)))), trainer.lr)
                ELSE trainer.lr
           gtd == FNeg(FSum(Map2(FMul, grad.g, grad.g)))
           td == FMaxAbsFrom([k \in 1..Len(grad.g) |-> FMul(t, grad.g[k])], 1)
       IN  /\ trainer' = [trainer EXCEPT !.steps = sn]
           /\ IF FLe(0, gtd)
              THEN /\ lb' = [lb EXCEPT !.n_iter = n, !.prev_loss = ll]
                   /\ pc' = "lb_return"
                   /\ UNCHANGED <<X, trace>>
              ELSE /\ X' = LbfgsAddGrad(X, t, grad.g)
                   /\ trace' = Append(trace, "update")
                   /\ lb' = [lb EXCEPT !.n_iter = n, !.prev_loss = ll, !.td_max = td,
                                       !.ls_func_evals = IF n # max_iter THEN 1 ELSE 0,
                                       !.ret = "lb_check"]
                   /\ pc' = IF n # max_iter THEN "cl_zero_grad" ELSE "lb_check"
    /\ UNCHANGED <<cfgVars, refVars, netGrad, grad, scheduler, epoch, contents_Y_hat,
                   styles_Y_hat, ll, result>>

\* the rest of the pass: the conditions that end the while loop
lb_check ==
    /\ pc = "lb_check"
    /\ LET oc == IF lb.ls_func_evals = 1 THEN OptCond ELSE lb.opt_cond
           ce == lb.current_evals + lb.ls_func_evals
           stop == \/ lb.n_iter = max_iter
                   \/ ce >= max_eval
                   \/ oc
                   \/ FLe(lb.td_max, 0)
                   \/ (Finite(ll) /\ Finite(lb.prev_loss) /\ ll = lb.prev_loss)
       IN  /\ lb' = [lb EXCEPT !.current_evals = ce, !.opt_cond = oc]
           /\ trainer' = [trainer EXCEPT !.func_evals = @ + lb.ls_func_evals]
           /\ pc' = IF stop THEN "lb_return" ELSE "lb_iter"
    /\ UNCHANGED <<cfgVars, refVars, netGrad, X, grad, scheduler, epoch,
                   contents_Y_hat, styles_Y_hat, ll, trace, result>>

\* trainer.step(closure) returns
lb_return ==
    /\ pc = "lb_return"
    /\ trainer' = [trainer EXCEPT !.calls = @ + 1]
    /\ trace' = Append(trace, "step")
    /\ pc' = "post_extract"
    /\ UNCHANGED <<cfgVars, refVars, netGrad, X, grad, scheduler, epoch,
                   contents_Y_hat, styles_Y_hat, ll, lb, result>>

\* the loss Gatys.py reports after the step
post_extract == pc = "post_extract" /\ DoExtract("post_loss")
post_loss == pc = "post_loss" /\ DoLoss("sched")

Next ==
    \/ get_contents \/ get_styles \/ train_inits
    \/ loop_head \/ train_return
    \/ zero_grad \/ extract \/ loss \/ backward \/ step \/ scheduler_step
    \/ lb_enter \/ closure_zero_grad \/ closure_extract \/ closure_loss
    \/ closure_backward \/ lb_first \/ lb_iter \/ lb_check \/ lb_return
    \/ post_extract \/ post_loss

Spec == Init /\ [][Next]_vars

(***************************************************************************)
(* The training loop: claims checked under Spec.                           *)
(***************************************************************************)
Started == pc \notin {"get_contents", "get_styles", "train"}
InIteration == Started /\ pc \notin {"loop", "done"}

\* C1: for num_epochs >= 0 train returns after exactly num_epochs outer
\* iterations, each with one optimizer step call and one scheduler step call;
\* between iterations the three counts agree, and no loss value (zero,
\* unchanged, infinite or NaN) makes train return earlier.
C1_ExactlyNIterations ==
    /\ (Started /\ pc \in {"loop", "done"}) =>
          (trainer.calls = epoch /\ scheduler.last_epoch = epoch)
    /\ InIteration =>
          (epoch < num_epochs /\ scheduler.last_epoch = epoch
           /\ trainer.calls \in {epoch, epoch + 1})
    /\ (pc = "done" /\ num_epochs >= 0) => (epoch = num_epochs /\ result = X)

C1_Witness == pc = "done" /\ num_epochs >= 2 /\ epoch = num_epochs /\ ll = 0

\* C2: with num_epochs = 0 train returns the image as get_inits initialised
\* it, a copy of the content image X passed in, whatever the constructor of
\* SynthesizedImage first put in the parameter.
C2_ZeroStepsReturnsInit ==
    (pc = "done" /\ num_epochs = 0) => (result = content_X /\ trainer.calls = 0)

C2_Witness == pc = "done" /\ num_epochs = 0 /\ variant = "Gatys" /\ result = content_X

\* C3 (as claimed): during the loop the references, the network weights and
\* the loss weights keep their values, and nothing changes but the synthesized
\* image, its gradient and the optimizer and scheduler state; in particular
\* no gradient is accumulated anywhere else.
C3_OnlyImageChanges ==
    [][(Started /\ pc # "done") =>
         /\ contents_Y' = contents_Y /\ styles_Y_gram' = styles_Y_gram
         /\ styles_Y' = styles_Y /\ net' = net /\ weights' = weights
         /\ netGrad' = netGrad]_vars

Count(s, e) == Cardinality({k \in 1..Len(s) : s[k] = e})
AdamOrder == <<"zero_grad", "extract", "loss", "backward", "step", "sched">>
IsPrefix(a, b) == Len(a) <= Len(b) /\ \A k \in 1..Len(a) : a[k] = b[k]

\* C4: within an outer iteration the calls come in the order zero_grad,
\* extract, loss, backward, optimizer step, scheduler step.  With Adam the
\* iteration is exactly that sequence.  With L-BFGS every backward is the last
\* of the four calls zero_grad, extract, loss, backward of one closure
\* evaluation, every update of the image directly follows one, the step
\* returns once and after every backward, and the scheduler step is last.
\* Whenever the optimizer is about to read the gradient it holds exactly one
\* backward pass.
C4_EventOrder ==
    /\ (Started /\ trainer.kind = "Adam") => IsPrefix(trace, AdamOrder)
    /\ (Started /\ trainer.kind = "Adam" /\ pc = "loop" /\ epoch > 0) => trace = AdamOrder
    /\ \A k \in 1..Len(trace) :
         /\ trace[k] = "backward" =>
               (k >= 4 /\ trace[k - 3] = "zero_grad" /\ trace[k - 2] = "extract"
                /\ trace[k - 1] = "loss")
         /\ trace[k] = "update" => (k >= 2 /\ trace[k - 1] = "backward")
         /\ trace[k] = "step" =>
               (Count(trace, "step") = 1 /\ Count(trace, "backward") >= 1
                /\ \A j \in k..Len(trace) : trace[j] \notin {"backward", "update", "zero_grad"})
         /\ trace[k] = "sched" => (k = Len(trace) /\ Count(trace, "step") = 1)
    /\ (Len(trace) > 0) => trace[1] = "zero_grad"
    /\ pc \in {"step", "lb_first", "lb_iter"} => grad.n = 1
    /\ (pc = "lb_check" /\ lb.ls_func_evals = 1) => grad.n = 1

C4_Witness ==
    /\ pc = "loop" /\ variant = "Gatys" /\ epoch > 0
    /\ Count(trace, "backward") >= 3 /\ Count(trace, "update") >= 3
    /\ trace[Len(trace)] = "sched"

RECURSIVE Decayed(_, _)
\* lr multiplied k times by gamma
Decayed(lr_, k) == IF k <= 0 THEN lr_ ELSE FMul(Decayed(lr_, k - 1), gamma)

\* C5: the learning rate the optimizer holds during outer iteration `epoch`
\* (and at the loop test before it) is the initial rate multiplied by 0.8
\* exactly floor(epoch / lr_decay_epoch) times, whatever the losses were.
C5_StepDecay ==
    Started => trainer.lr = Decayed(lr, epoch \div lr_decay_epoch)

C5_Witness ==
    /\ pc = "step" /\ lr = Half /\ lr_decay_epoch = 2 /\ epoch = 2
    /\ trainer.lr = FMul(Half, gamma)

\* C7 (as claimed): train never applies an optimizer step to, nor returns an
\* image after, a loss that is not finite.
C7_AbortsOnNonFiniteLoss ==
    pc \in {"step", "lb_first", "lb_iter", "done"} => Finite(ll)

\* C8 (as claimed): with a non-positive step count or learning rate train
\* starts no iteration and returns no image.
C8_RejectsNonPositive ==
    (num_epochs <= 0 \/ lr <= 0) => ~(InIteration \/ pc = "done")

(***************************************************************************)
(* What the other specifications leave alone.                              *)
(***************************************************************************)
trainVars == <<num_epochs, lr, lr_decay_epoch, netGrad, grad, trainer, scheduler, epoch,
               lb, trace, result>>
TrainIdle ==
    /\ num_epochs = 0 /\ lr = 0 /\ lr_decay_epoch = 1
    /\ netGrad = 0 /\ grad = NoGrad
    /\ trainer = NoTrainer /\ scheduler = StepLR(1, gamma)
    /\ epoch = 0 /\ lb = NoLb /\ trace = <<>> /\ result = NoTensor

(***************************************************************************)
(* SpecFeat: extract_features on requested depths of any order, run as the *)
(* scripts run it: on the content image, on the style image, on the        *)
(* synthesized image, and then compute_loss pairs the results.             *)
(***************************************************************************)
MaxDepth == 2
MaxListLen == 2
DepthLists == UNION {[1..n -> 0..MaxDepth] : n \in 0..MaxListLen}

InitFeat ==
    /\ variant \in {"main", "Gatys"}
    /\ \E cl \in DepthLists, sl \in DepthLists :
         /\ Len(cl) + Len(sl) > 0
         /\ ef = [NoEf EXCEPT !.content_layers_ = cl, !.style_layers_ = sl]
         /\ net = MakeNet(1, cl, sl)
    /\ weights = LossWeights(variant)
    /\ content_X \in ContentImages
    /\ style_X = Img(2, 0, 0, 2)
    /\ X \in RandImages
    /\ pc = "feat_contents"
    /\ contents_Y = <<>> /\ styles_Y = <<>> /\ styles_Y_gram = <<>>
    /\ contents_Y_hat = <<>> /\ styles_Y_hat = <<>> /\ ll = 0
    /\ out = NoOut
    /\ TrainIdle

\* a call extract_features(input, content_layers, style_layers)
feat_call ==
    /\ pc \in {"feat_contents", "feat_styles", "feat_hat"}
    /\ ef' = [ef EXCEPT !.i = 0, !.contents = <<>>, !.styles = <<>>, !.ret = pc,
                        !.X = IF pc = "feat_contents" THEN content_X
                              ELSE IF pc = "feat_styles" THEN style_X ELSE X]
    /\ pc' = "ef_loop"
    /\ UNCHANGED <<variant, content_X, style_X, X, net, weights, contents_Y, styles_Y,
                   styles_Y_gram, contents_Y_hat, styles_Y_hat, ll, out, trainVars>>

\* for i in range(len(net)): one iteration
ef_iteration ==
    /\ pc = "ef_loop"
    /\ ef.i < Len(net)
    /\ LET st == ef_body(net, ef.i, [X |-> ef.X, contents |-> ef.contents,
                                     styles |-> ef.styles],
                         ef.content_layers_, ef.style_layers_)
       IN  ef' = [ef EXCEPT !.i = @ + 1, !.X = st.X, !.contents = st.contents,
                            !.styles = st.styles]
    /\ UNCHANGED <<variant, pc, content_X, style_X, X, net, weights, contents_Y,
                   styles_Y, styles_Y_gram, contents_Y_hat, styles_Y_hat, ll, out,
                   trainVars>>

\* return contents, styles: to get_contents, to get_styles, to train
ef_return ==
    /\ pc = "ef_loop"
    /\ ef.i >= Len(net)
    /\ contents_Y' = IF ef.ret = "feat_contents" THEN ef.contents ELSE contents_Y
    /\ styles_Y' = IF ef.ret = "feat_styles" THEN ef.styles ELSE styles_Y
    /\ styles_Y_gram' = IF ef.ret = "feat_styles"
                        THEN [k \in 1..Len(ef.styles) |-> gram(ef.styles[k])]
                        ELSE styles_Y_gram
    /\ contents_Y_hat' = IF ef.ret = "feat_hat" THEN ef.contents ELSE contents_Y_hat
    /\ styles_Y_hat' = IF ef.ret = "feat_hat" THEN ef.styles ELSE styles_Y_hat
    /\ pc' = IF ef.ret = "feat_contents" THEN "feat_styles"
             ELSE IF ef.ret = "feat_styles" THEN "feat_hat" ELSE "feat_pair"
    /\ UNCHANGED <<variant, content_X, style_X, X, net, weights, ll, out, ef, trainVars>>

\* compute_loss zips the activations of the synthesized image with the references
feat_pair ==
    /\ pc = "feat_pair"
    /\ out' = compute_loss(variant, weights, X, contents_Y_hat, styles_Y_hat,
                           contents_Y, styles_Y_gram)
    /\ pc' = "done"
    /\ UNCHANGED <<variant, content_X, style_X, X, net, weights, contents_Y, styles_Y,
                   styles_Y_gram, contents_Y_hat, styles_Y_hat, ll, ef, trainVars>>

NextFeat == feat_call \/ ef_iteration \/ ef_return \/ feat_pair

SpecFeat == InitFeat /\ [][NextFeat]_vars

(***************************************************************************)
(* SpecLoss: compute_loss on any number of style and content layers.       *)
(***************************************************************************)
MaxStyleLayers == 6
MaxContentLayers == 1
Activations == {Img(0, 1, 1, 0), Img(1, 2, 0, 1)}
Reference == Img(1, 0, 0, 1)

InitLoss ==
    /\ variant \in {"main", "Gatys"}
    /\ weights = LossWeights(variant)
    /\ X \in Activations
    /\ \E nc \in 0..MaxContentLayers :
         /\ contents_Y_hat \in [1..nc -> Activations]
         /\ contents_Y = [k \in 1..nc |-> Reference]
    /\ \E ns \in 1..MaxStyleLayers :
         /\ styles_Y_hat \in [1..ns -> Activations]
         /\ styles_Y = [k \in 1..ns |-> Reference]
         /\ styles_Y_gram = [k \in 1..ns |-> gram(Reference)]
    /\ pc = "compute_loss"
    /\ content_X = NoTensor /\ style_X = NoTensor /\ net = <<>>
    /\ ll = 0 /\ ef = NoEf /\ out = NoOut
    /\ TrainIdle

compute_loss_call ==
    /\ pc = "compute_loss"
    /\ out' = compute_loss(variant, weights, X, contents_Y_hat, styles_Y_hat,
                           contents_Y, styles_Y_gram)
    /\ ll' = out'.l_
    /\ pc' = "done"
    /\ UNCHANGED <<variant, content_X, style_X, X, net, weights, contents_Y, styles_Y,
                   styles_Y_gram, contents_Y_hat, styles_Y_hat, ef, trainVars>>

NextLoss == compute_loss_call

SpecLoss == InitLoss /\ [][NextLoss]_vars

(***************************************************************************)
(* SpecTV: tv_loss on images of every small shape (1, C, H, W): constant   *)
(* in each channel, with one pixel that deviates, or rising along the rows *)
(* or the columns.                                                         *)
(***************************************************************************)
MaxC == 2
MaxH == 3
MaxW == 3
Deviations == {FromInt(2), FromInt(0 - 3), PInf, NaN}

InitTV ==
    /\ variant \in {"main", "Gatys"}
    /\ \E c \in 1..MaxC, h \in 1..MaxH, w \in 1..MaxW, base \in 0..1, chan \in 0..1 :
         LET flat == [k \in 1..(c * h * w) |->
                         FromInt(base + chan * ((k - 1) \div (h * w)))]
         IN  \/ X = Tensor(c, h, w, flat)
             \/ \E p \in 1..(c * h * w), d \in Deviations :
                  X = Tensor(c, h, w, [flat EXCEPT ![p] = d])
             \/ \E down \in 0..1, right \in 0..1 :
                  /\ down + right > 0
                  /\ X = Tensor(c, h, w,
                                [k \in 1..(c * h * w) |->
                                    FAdd(flat[k],
                                         FromInt(down * (((k - 1) \div w) % h)
                                                 + right * ((k - 1) % w)))])
    /\ pc = "tv_loss"
    /\ weights = LossWeights(variant)
    /\ content_X = NoTensor /\ style_X = NoTensor /\ net = <<>>
    /\ contents_Y = <<>> /\ styles_Y = <<>> /\ styles_Y_gram = <<>>
    /\ contents_Y_hat = <<>> /\ styles_Y_hat = <<>>
    /\ ll = 0 /\ ef = NoEf /\ out = NoOut
    /\ TrainIdle

tv_loss_call ==
    /\ pc = "tv_loss"
    /\ ll' = tv_loss(X)
    /\ pc' = "done"
    /\ UNCHANGED <<variant, content_X, style_X, X, net, weights, contents_Y, styles_Y,
                   styles_Y_gram, contents_Y_hat, styles_Y_hat, ef, out, trainVars>>

NextTV == tv_loss_call

SpecTV == InitTV /\ [][NextTV]_vars

(***************************************************************************)
(* Claims on the pure functions.                                           *)
(***************************************************************************)
\* C6 (as claimed): the total is the sum of the weighted content losses plus
\* the sum of the weighted style losses divided by the number of style layers
\* plus the weighted total-variation loss.
C6_StyleAveragedOverLayers ==
    pc = "done" =>
       out.l_ = FAdd(FAdd(FSum(out.contents_l),
                          FDivInt(FSum(out.styles_l), Len(styles_Y_hat))),
                     out.tv_l)

SetOf(s) == {s[k] : k \in 1..Len(s)}
\* the distinct depths of a list below the network's length, in ascending order
Ascending(layers_) ==
    LET D == {d \in SetOf(layers_) : d < Len(net)}
    IN  [k \in 1..Cardinality(D) |->
            CHOOSE d \in D : Cardinality({e \in D : e < d}) = k - 1]

RECURSIVE OutputOfLayer(_, _)
\* the output of layer d for input X_: net[d](net[d-1](... net[0](X_)))
OutputOfLayer(X_, d) ==
    IF d < 0 THEN X_ ELSE Layer(net[d + 1], OutputOfLayer(X_, d - 1))

\* C9: each call of extract_features made one pass over layers 0..max depth
\* and returned, for the content and for the style list, one activation per
\* requested depth in ascending depth order, each the output of the layer at
\* that depth; compute_loss therefore pairs the k-th activation of the
\* synthesized image with the reference of the same depth.
C9_AscendingDepthOrder ==
    pc = "done" =>
       LET CD == Ascending(ef.content_layers_)
           SD == Ascending(ef.style_layers_)
       IN  /\ ef.i = Len(net)
           /\ Len(net) = MaxOf(ef.content_layers_ \o ef.style_layers_, 1) + 1
           /\ Len(CD) = Cardinality(SetOf(ef.content_layers_))
           /\ Len(SD) = Cardinality(SetOf(ef.style_layers_))
           /\ contents_Y = [k \in 1..Len(CD) |-> OutputOfLayer(content_X, CD[k])]
           /\ styles_Y = [k \in 1..Len(SD) |-> OutputOfLayer(style_X, SD[k])]
           /\ contents_Y_hat = [k \in 1..Len(CD) |-> OutputOfLayer(X, CD[k])]
           /\ styles_Y_hat = [k \in 1..Len(SD) |-> OutputOfLayer(X, SD[k])]
           /\ out.raised = "" =>
                 /\ out.contents_l =
                       [k \in 1..Len(CD) |->
                           FMulInt(content_loss(OutputOfLayer(X, CD[k]),
                                                OutputOfLayer(content_X, CD[k])),
                                   weights.content)]
                 /\ out.styles_l =
                       [k \in 1..Len(SD) |->
                           FMulInt(style_loss(OutputOfLayer(X, SD[k]),
                                              gram(OutputOfLayer(style_X, SD[k]))),
                                   weights.style)]

C9_Witness ==
    /\ pc = "done"
    /\ Len(ef.style_layers_) = 2 /\ ef.style_layers_[1] > ef.style_layers_[2]
    /\ InList(ef.style_layers_[1], ef.content_layers_)
    /\ Len(styles_Y_hat) = 2 /\ Len(contents_Y_hat) >= 1
    /\ Len(out.styles_l) = 2 /\ out.styles_l[1] # out.styles_l[2]

AllFinite(t) == \A k \in 1..Len(t.v) : Finite(t.v[k])
\* every channel has one value at all its positions
SpatiallyConstant(t) ==
    \A c \in 1..t.C : \A h1, h2 \in 1..t.H : \A w1, w2 \in 1..t.W :
        At(t, c, h1, w1) = At(t, c, h2, w2)

\* C10 (as claimed): for any image of shape (1, C, H, W) tv_loss is 0 when the
\* image is spatially constant and strictly positive when it is not.
C10_TvZeroIffConstant ==
    pc = "done" =>
       /\ SpatiallyConstant(X) => ll = 0
       /\ ~SpatiallyConstant(X) => FLt(0, ll)

\* C10 (amended): the same for images of finite pixel values with H >= 2 and
\* W >= 2.
C10_TvZeroIffConstantFrom2x2 ==
    (pc = "done" /\ X.H >= 2 /\ X.W >= 2 /\ AllFinite(X)) =>
       /\ SpatiallyConstant(X) => ll = 0
       /\ ~SpatiallyConstant(X) => FLt(0, ll)

C10_Witness ==
    /\ pc = "done" /\ X.H >= 2 /\ X.W >= 2 /\ AllFinite(X)
    /\ ~SpatiallyConstant(X) /\ FLt(0, ll) /\ Finite(ll)

====
